---- MODULE Spec2Model ----
(***************************************************************************)
(* The derandomized measurement scheduler of                                *)
(* src/data_acquisition_shadow.py (derandomized_classical_shadow and its    *)
(* two local functions cost_function and match_up), as a state machine.     *)
(*                                                                          *)
(* Real numbers.  The costs the scheduler compares are sums of              *)
(* exp(-V / weight[i] - shift).  exp(-V / w) is                             *)
(*     (q^m * (1 - nu / 3^k)) ^ (1 / w),   q = exp(-eta / 2), nu = 1 - q    *)
(* (the factor 1 - nu / 3^k is dropped when system_size < k), and           *)
(* exp(-shift) is the same positive factor in all three costs of a qubit    *)
(* step, so it is left out.  Each real is carried as an interval <<lo, hi>> *)
(* of fixed-point integers (unit 1 / Scale) that is proved to contain it:   *)
(* every operation rounds lo down and hi up.  Two costs compare as the      *)
(* reals do when their intervals are disjoint; two sums of the same terms   *)
(* are equal; anything else is left open and the model takes every order.   *)
(***************************************************************************)
EXTENDS Integers, Sequences, FiniteSets

\* ------------------------------------------------------------------ bounds
MaxSystemSize == 2
MaxObservables == 2
MaxMeasurements == 2

\* --------------------------------------------------------- program constants
PAULI_OPS == <<"X", "Y", "Z">>
Paulis == {"X", "Y", "Z"}
EtaNum == 9
EtaDen == 10
None == "None"

\* ------------------------------------------------------ fixed-point reals
Scale == 10^6
Limb == 10^3
FineScale == 10^8
Fine == FineScale \div Scale

CeilDiv(a, b) == (a + b - 1) \div b

\* a * b / Scale for 0 <= a, b <= Scale without leaving 32 bits: b is split
\* in two limbs.  MulLo is at most the product, MulHi at least.
MulLo(a, b) == (a * (b \div Limb)) \div Limb + (a * (b % Limb)) \div Scale
MulHi(a, b) == MulLo(a, b) + 2

IMul(x, y) == <<MulLo(x[1], y[1]), MulHi(x[2], y[2])>>
IOne == <<Scale, Scale>>
IZero == <<0, 0>>

\* The j-th term (eta/2)^j / j! of the series of exp, in units of
\* 1 / FineScale: t_j = t_(j-1) * eta / (2 j).
RECURSIVE TaylorLo(_)
TaylorLo(j) ==
    IF j = 0 THEN FineScale
    ELSE (TaylorLo(j - 1) * EtaNum) \div (2 * EtaDen * j)
RECURSIVE TaylorHi(_)
TaylorHi(j) ==
    IF j = 0 THEN FineScale
    ELSE CeilDiv(TaylorHi(j - 1) * EtaNum, 2 * EtaDen * j)

\* The partial sum t_0 - t_1 + ... +- t_j of exp(-eta/2), rounded down
\* (down = TRUE) or up.  The series alternates with decreasing terms, so a
\* sum that ends on an odd j is below exp(-eta/2), one on an even j above.
RECURSIVE ExpSeries(_, _)
ExpSeries(j, down) ==
    LET pos == j % 2 = 0
        t   == IF pos = down THEN TaylorLo(j) ELSE TaylorHi(j)
        s   == IF pos THEN t ELSE 0 - t
    IN  IF j = 0 THEN s ELSE ExpSeries(j - 1, down) + s

SeriesOrder == 2 * 5

\* q = math.exp(-eta / 2)
ExpNegHalfEta ==
    <<ExpSeries(SeriesOrder - 1, TRUE) \div Fine,
      CeilDiv(ExpSeries(SeriesOrder, FALSE), Fine)>>

\* nu = 1 - math.exp(-eta / 2)
Nu == <<Scale - ExpNegHalfEta[2], Scale - ExpNegHalfEta[1]>>

\* math.exp(-eta / 2 * m) = q^m
RECURSIVE ExpDecay(_)
ExpDecay(m) == IF m = 0 THEN IOne ELSE IMul(ExpDecay(m - 1), ExpNegHalfEta)

\* 1 - nu / (3 ** k)
OneMinusNuOver(k) ==
    <<Scale - CeilDiv(Nu[2], 3^k), Scale - (Nu[1] \div (3^k))>>

\* The largest y in lo..hi with MulHi(y, y) <= x: at most sqrt(x), in fixed point.
RECURSIVE SqrtLo(_, _, _)
SqrtLo(x, lo, hi) ==
    IF lo >= hi THEN lo
    ELSE LET mid == (lo + hi + 1) \div 2
         IN  IF MulHi(mid, mid) <= x THEN SqrtLo(x, mid, hi)
             ELSE SqrtLo(x, lo, mid - 1)
\* The smallest y in lo..hi with MulLo(y, y) >= x: at least sqrt(x).
RECURSIVE SqrtHi(_, _, _)
SqrtHi(x, lo, hi) ==
    IF lo >= hi THEN lo
    ELSE LET mid == (lo + hi) \div 2
         IN  IF MulLo(mid, mid) >= x THEN SqrtHi(x, lo, mid)
             ELSE SqrtHi(x, mid + 1, hi)

\* A weight is a positive rational <<numerator, denominator>>.
WeightValues == {<<1, 2>>, <<1, 1>>, <<2, 1>>}
DefaultWeight == <<1, 1>>

\* x ^ (1 / w) for 0 <= x <= 1
RootByWeight(x, w) ==
    CASE w = <<1, 1>> -> x
      [] w = <<1, 2>> -> IMul(x, x)
      [] w = <<2, 1>> -> <<SqrtLo(x[1], 0, Scale), SqrtHi(x[2], 0, Scale)>>


\* ------------------------------------------------------------------ inputs
\* An observable is a list of tuples <<pauli, position>>; the positions are
\* distinct and below system_size (spec section 3), here in increasing order.
RECURSIVE ObservableOf(_, _)
ObservableOf(f, n) ==
    IF n = 0 THEN <<>>
    ELSE LET rest == ObservableOf(f, n - 1)
         IN  IF f[n - 1] = "I" THEN rest ELSE Append(rest, <<f[n - 1], n - 1>>)

Observables(n) ==
    {ObservableOf(f, n) : f \in [0..(n - 1) -> Paulis \cup {"I"}]} \ {<<>>}

ObservableLists(n) ==
    UNION {[1..N -> Observables(n)] : N \in 1..MaxObservables}

\* The argument weight: None, or a list.
NoWeight == [is_none |-> TRUE, list |-> <<>>]
WeightList(l) == [is_none |-> FALSE, list |-> l]

\* weight: None, or a list of one weight per observable, or a list of
\* another length (its entries are never read).
WeightArgs(N) ==
    {NoWeight}
        \cup {WeightList(l) : l \in [1..N -> WeightValues]}
        \cup {WeightList([i \in 1..L |-> DefaultWeight]) :
                  L \in (0..(MaxObservables + 1)) \ {N}}

\* ------------------------------------------------------------------- state
VARIABLES
    all_observables,                      \* argument
    num_of_measurements_per_observable,   \* argument
    system_size,                          \* argument
    weight_arg,                           \* argument weight, as passed
    weight,                               \* the list weight names from line 90 on
    num_of_measurements_so_far,           \* line 133
    measurement_procedure,                \* line 134
    repetition,                           \* the loop index of line 136
    num_of_matches_needed_in_this_round,  \* line 138
    single_round_measurement,             \* line 139
    sum_cnt,                              \* lines 92, 121, 143
    qubit_i,                              \* the loop index of line 145
    dice,                                 \* index in PAULI_OPS of the loop of line 148
    cost_of_outcomes,                     \* line 146
    pc,                                   \* position in the function
    outcome,                              \* how the call ended
    trial_needed,      \* history: the counters each trial evaluated (line 157)
    needed_at_qubit,   \* history: the counters when the qubit step began
    compared           \* history: how the three costs compared at lines 167-168

vars == <<all_observables, num_of_measurements_per_observable, system_size,
          weight_arg, weight, num_of_measurements_so_far, measurement_procedure,
          repetition, num_of_matches_needed_in_this_round,
          single_round_measurement, sum_cnt, qubit_i, dice, cost_of_outcomes,
          pc, outcome, trial_needed, needed_at_qubit, compared>>

inputs == <<all_observables, num_of_measurements_per_observable, system_size,
            weight_arg>>

NumObservables == Len(all_observables)

\* ---------------------------------------------------------------- match_up
MatchResult == [NOT_FOUND |-> 0, INCONSISTENT |-> 0 - 1, FOUND |-> 1]

\* next((pauli for pauli, pos in ob if pos == qubit_i), None)
RECURSIVE TargetPauli(_, _)
TargetPauli(q, ob) ==
    IF ob = <<>> THEN None
    ELSE IF Head(ob)[2] = q THEN Head(ob)[1]
    ELSE TargetPauli(q, Tail(ob))

match_up(q, dice_roll_pauli, ob) ==
    LET target_pauli == TargetPauli(q, ob)
    IN  IF target_pauli = None THEN MatchResult.NOT_FOUND
        ELSE IF target_pauli = dice_roll_pauli THEN MatchResult.FOUND
        ELSE MatchResult.INCONSISTENT

\* 100 * (system_size + 10): "impossible to measure"
Impossible == 100 * (system_size + 10)

\* Lines 150-155 and 172-177: assume the dice roll.
ApplyDiceRoll(needed, q, dice_roll_pauli) ==
    [i \in 1..Len(needed) |->
        LET result == match_up(q, dice_roll_pauli, all_observables[i])
        IN  IF result = MatchResult.INCONSISTENT THEN needed[i] + Impossible
            ELSE IF result = MatchResult.FOUND THEN needed[i] - 1
            ELSE needed[i]]

\* Mutant of RevertDiceRoll: the penalty of an inconsistent roll is left in.
RevertDiceRollKeepsPenalty(needed, q, dice_roll_pauli) ==
    [i \in 1..Len(needed) |->
        LET result == match_up(q, dice_roll_pauli, all_observables[i])
        IN  IF result = MatchResult.FOUND THEN needed[i] + 1 ELSE needed[i]]

\* Lines 160-165: revert the dice roll.
RevertDiceRoll(needed, q, dice_roll_pauli) ==
    [i \in 1..Len(needed) |->
        LET result == match_up(q, dice_roll_pauli, all_observables[i])
        IN  IF result = MatchResult.INCONSISTENT THEN needed[i] - Impossible
            ELSE IF result = MatchResult.FOUND THEN needed[i] + 1
            ELSE needed[i]]

\* ----------------------------------------------------------- cost_function
\* math.floor(weight[i] * num_of_measurements_per_observable)
Target(w) == (w[1] * num_of_measurements_per_observable) \div w[2]

\* Line 111: the observable is skipped.
Satisfied(so_far, i) == so_far[i] >= Target(weight[i])

\* Mutant of CostTerm: an observable that cannot be matched any more is
\* excluded from the cost.
\* exp(-V / w) of lines 114-118 for every m, k and w in reach, worked out
\* once; k = MaxSystemSize + 1 stands for every k above system_size, where
\* the logarithm is left out and the term is exp(-eta/2 * m / w).
NoLogarithm == MaxSystemSize + 1
MaxCount == 2 * MaxMeasurements
TermTable ==
    [m \in 0..MaxCount |->
        [k \in 0..NoLogarithm |->
            [w \in WeightValues |->
                RootByWeight(IF k = NoLogarithm THEN ExpDecay(m)
                             ELSE IMul(ExpDecay(m), OneMinusNuOver(k)), w)]]]

\* Mutant of CostTerm: an observable that cannot be matched any more is
\* excluded from the cost.
CostTermExcluding(m, k, w) ==
    IF system_size < k THEN IZero ELSE TermTable[m][k][w]

\* Lines 114-118 without the factor exp(-shift):
\* exp(-V / w) with V = eta/2 * m - (0 if system_size < k else log(1 - nu / 3^k)).
CostTerm(m, k, w) ==
    TermTable[m][IF system_size < k THEN NoLogarithm ELSE k][w]

\* What the float of a term is a function of: m, w, and k unless the
\* logarithm is dropped.
TermKey(m, k, w) == <<m, IF system_size < k THEN system_size + 1 ELSE k, w>>

RECURSIVE SumLo(_, _)
SumLo(terms, n) == IF n = 0 THEN 0 ELSE SumLo(terms, n - 1) + terms[n][1]
RECURSIVE SumHi(_, _)
SumHi(terms, n) == IF n = 0 THEN 0 ELSE SumHi(terms, n - 1) + terms[n][2]

RECURSIVE LiveKeys(_, _, _)
LiveKeys(so_far, needed, n) ==
    IF n = 0 THEN <<>>
    ELSE LET rest == LiveKeys(so_far, needed, n - 1)
         IN  IF Satisfied(so_far, n) THEN rest
             ELSE Append(rest, TermKey(so_far[n], needed[n], weight[n]))

\* The cost of lines 106-123: its terms (zero for a skipped observable), the
\* keys of the terms summed, in order, and the interval of the sum.
cost_function(so_far, needed) ==
    LET terms == [i \in 1..Len(so_far) |->
                    IF Satisfied(so_far, i) THEN IZero
                    ELSE CostTerm(so_far[i], needed[i], weight[i])]
    IN  [terms |-> terms,
         keys  |-> LiveKeys(so_far, needed, Len(so_far)),
         lo    |-> SumLo(terms, Len(terms)),
         hi    |-> SumHi(terms, Len(terms))]

\* dict.fromkeys(PAULI_OPS, 0.)
ZeroCost == [terms |-> <<>>, keys |-> <<>>, lo |-> 0, hi |-> 0]
ZeroCosts == [p \in Paulis |-> ZeroCost]

\* ------------------------------------------------- comparing the costs
\* The two sums are the same float: the same terms in the same order, or two
\* terms swapped (addition commutes).
SameValue(a, b) ==
    \/ a.keys = b.keys
    \/ /\ Len(a.keys) = 2
       /\ Len(b.keys) = 2
       /\ a.keys[1] = b.keys[2]
       /\ a.keys[2] = b.keys[1]

\* a < b for certain
SurelyLess(a, b) == a.hi < b.lo

\* The orders of the three costs that the intervals allow, each as ranks
\* 0, 1, 2 without gaps.  One order when every pair is decided.
Comparisons(costs) ==
    {v \in [Paulis -> 0..2] :
        /\ \A p \in Paulis : v[p] = 0 \/ \E r \in Paulis : v[r] = v[p] - 1
        /\ \A a, b \in Paulis :
              /\ SameValue(costs[a], costs[b]) => v[a] = v[b]
              /\ SurelyLess(costs[a], costs[b]) => v[a] < v[b]}

\* Mutant of MinCost: max for min.
MaxCost(v) == CHOOSE x \in {v[p] : p \in Paulis} : \A p \in Paulis : x >= v[p]

\* min(cost_of_outcomes.values())
MinCost(v) == CHOOSE x \in {v[p] : p \in Paulis} : \A p \in Paulis : x <= v[p]

\* Mutant of BestDiceRolls: the break of line 178 is missing.
RECURSIVE BestDiceRollsNoBreak(_, _)
BestDiceRollsNoBreak(v, j) ==
    IF j > Len(PAULI_OPS) THEN <<>>
    ELSE IF MinCost(v) < v[PAULI_OPS[j]] THEN BestDiceRollsNoBreak(v, j + 1)
    ELSE <<PAULI_OPS[j]>> \o BestDiceRollsNoBreak(v, j + 1)

\* The loop of lines 167-178: the bases it appends, from PAULI_OPS[j] on.
RECURSIVE BestDiceRolls(_, _)
BestDiceRolls(v, j) ==
    IF j > Len(PAULI_OPS) THEN <<>>
    ELSE IF MinCost(v) < v[PAULI_OPS[j]] THEN BestDiceRolls(v, j + 1)
    ELSE <<PAULI_OPS[j]>>

RECURSIVE ApplyDiceRolls(_, _, _)
ApplyDiceRolls(needed, q, rolls) ==
    IF rolls = <<>> THEN needed
    ELSE ApplyDiceRolls(ApplyDiceRoll(needed, q, Head(rolls)), q, Tail(rolls))

\* -------------------------------------------------------------------- Init
Init ==
    /\ system_size \in 1..MaxSystemSize
    /\ all_observables \in ObservableLists(system_size)
    /\ num_of_measurements_per_observable \in 1..MaxMeasurements
    /\ weight_arg \in WeightArgs(Len(all_observables))
    /\ weight = weight_arg.list
    /\ num_of_measurements_so_far = <<>>
    /\ measurement_procedure = <<>>
    /\ repetition = 0
    /\ num_of_matches_needed_in_this_round = <<>>
    /\ single_round_measurement = <<>>
    /\ sum_cnt = 0
    /\ qubit_i = 0
    /\ dice = 1
    /\ cost_of_outcomes = ZeroCosts
    /\ pc = "start"
    /\ outcome = "running"
    /\ trial_needed = [p \in Paulis |-> <<>>]
    /\ needed_at_qubit = <<>>
    /\ compared = [p \in Paulis |-> 0]


\* ----------------------------------------------------------------- actions
\* Mutant of WeightLengthMismatch: only a list that is too short is refused.
WeightTooShort == Len(weight_arg.list) < NumObservables

\* Line 88: len(weight) != len(all_observables)
WeightLengthMismatch == Len(weight_arg.list) # NumObservables

\* Lines 86-89, and 91-92, 133-134 when no error is raised.
ConfigCheck ==
    /\ pc = "start"
    /\ IF weight_arg.is_none
       THEN /\ weight' = [i \in 1..NumObservables |-> DefaultWeight]
            /\ pc' = "loop"
            /\ outcome' = outcome
       ELSE IF WeightLengthMismatch
       THEN /\ weight' = weight
            /\ pc' = "raised"
            /\ outcome' = "ValueError"
       ELSE /\ weight' = weight
            /\ pc' = "loop"
            /\ outcome' = outcome
    /\ num_of_measurements_so_far' =
          IF pc' = "loop" THEN [i \in 1..NumObservables |-> 0]
          ELSE num_of_measurements_so_far
    /\ UNCHANGED <<inputs, measurement_procedure, repetition,
                   num_of_matches_needed_in_this_round,
                   single_round_measurement, sum_cnt, qubit_i, dice,
                   cost_of_outcomes, trial_needed, needed_at_qubit, compared>>

\* Mutant of Budget: the range is one too long.
BudgetOffByOne == num_of_measurements_per_observable * NumObservables + 1

\* range(num_of_measurements_per_observable * len(all_observables)), line 136
Budget == num_of_measurements_per_observable * NumObservables

\* Lines 136-145: one more round begins.
RoundStart ==
    /\ pc = "loop"
    /\ repetition < Budget
    /\ num_of_matches_needed_in_this_round' =
          [i \in 1..NumObservables |-> Len(all_observables[i])]
    /\ single_round_measurement' = <<>>
    /\ sum_cnt' = 0
    /\ qubit_i' = 0
    /\ dice' = 1
    /\ pc' = "trial"
    /\ UNCHANGED <<inputs, weight, num_of_measurements_so_far,
                   measurement_procedure, repetition, cost_of_outcomes,
                   outcome, trial_needed, needed_at_qubit, compared>>

\* Line 136 with the range used up, then line 194.
Exhausted ==
    /\ pc = "loop"
    /\ repetition >= Budget
    /\ pc' = "done"
    /\ outcome' = "exhausted"
    /\ UNCHANGED <<inputs, weight, num_of_measurements_so_far,
                   measurement_procedure, repetition,
                   num_of_matches_needed_in_this_round,
                   single_round_measurement, sum_cnt, qubit_i, dice,
                   cost_of_outcomes, trial_needed, needed_at_qubit, compared>>

\* The number of terms cost_function adds to sum_cnt (line 121).
RECURSIVE Unsatisfied(_, _)
Unsatisfied(so_far, n) ==
    IF n = 0 THEN 0
    ELSE Unsatisfied(so_far, n - 1) + (IF Satisfied(so_far, n) THEN 0 ELSE 1)

\* Lines 148-165 for one dice roll (and line 146 before the first): assume
\* it, evaluate the cost, revert it.
Trial ==
    /\ pc = "trial"
    /\ LET dice_roll_pauli == PAULI_OPS[dice]
           assumed  == ApplyDiceRoll(num_of_matches_needed_in_this_round,
                                     qubit_i, dice_roll_pauli)
           previous == IF dice = 1 THEN ZeroCosts ELSE cost_of_outcomes
       IN  /\ cost_of_outcomes' =
                 [previous EXCEPT ![dice_roll_pauli] =
                     cost_function(num_of_measurements_so_far, assumed)]
           /\ num_of_matches_needed_in_this_round' =
                 RevertDiceRoll(assumed, qubit_i, dice_roll_pauli)
           /\ trial_needed' = [trial_needed EXCEPT ![dice_roll_pauli] = assumed]
    /\ needed_at_qubit' =
          IF dice = 1 THEN num_of_matches_needed_in_this_round
          ELSE needed_at_qubit
    /\ sum_cnt' = sum_cnt + Unsatisfied(num_of_measurements_so_far, NumObservables)
    /\ IF dice < Len(PAULI_OPS)
       THEN /\ dice' = dice + 1
            /\ pc' = "trial"
       ELSE /\ dice' = dice
            /\ pc' = "commit"
    /\ UNCHANGED <<inputs, weight, num_of_measurements_so_far,
                   measurement_procedure, repetition, single_round_measurement,
                   qubit_i, outcome, compared>>

\* Lines 167-178 with the three costs comparing as v, and the step of the
\* loop of line 145.
CommitAs(v) ==
    LET rolls == BestDiceRolls(v, 1)
    IN  /\ single_round_measurement' = single_round_measurement \o rolls
        /\ num_of_matches_needed_in_this_round' =
              ApplyDiceRolls(num_of_matches_needed_in_this_round, qubit_i, rolls)
        /\ compared' = v
        /\ qubit_i' = qubit_i + 1
        /\ dice' = 1
        /\ pc' = IF qubit_i + 1 < system_size THEN "trial" ELSE "round_end"
        /\ UNCHANGED <<inputs, weight, num_of_measurements_so_far,
                       measurement_procedure, repetition, sum_cnt,
                       cost_of_outcomes, outcome, trial_needed, needed_at_qubit>>

Commit ==
    /\ pc = "commit"
    /\ \E v \in Comparisons(cost_of_outcomes) : CommitAs(v)

\* Mutant of CountMatches: "needed >= 0" for "needed == 0", so that a round
\* counts for every observable it did not rule out.
CountMatchesNotRuledOut(so_far, needed) ==
    [i \in 1..Len(so_far) |->
        IF needed[i] >= 0 THEN so_far[i] + 1 ELSE so_far[i]]

\* Lines 182-184
CountMatches(so_far, needed) ==
    [i \in 1..Len(so_far) |-> IF needed[i] = 0 THEN so_far[i] + 1 ELSE so_far[i]]

\* Mutant of Success: the loop ends as soon as one observable is satisfied.
SuccessOfAny(so_far) == Unsatisfied(so_far, Len(so_far)) < Len(so_far)

\* Lines 186-190
Success(so_far) == Unsatisfied(so_far, Len(so_far)) = 0

\* Mutant of RoundEnd: line 180 has slipped into the loop of line 182, so
\* the round is appended once per observable.
RoundEndAppendInLoop ==
    /\ pc = "round_end"
    /\ measurement_procedure' =
          measurement_procedure
              \o [i \in 1..NumObservables |-> single_round_measurement]
    /\ num_of_measurements_so_far' =
          CountMatches(num_of_measurements_so_far,
                       num_of_matches_needed_in_this_round)
    /\ IF Success(num_of_measurements_so_far')
       THEN /\ pc' = "done"
            /\ outcome' = "success"
            /\ repetition' = repetition
       ELSE /\ pc' = "loop"
            /\ outcome' = outcome
            /\ repetition' = repetition + 1
    /\ UNCHANGED <<inputs, weight, num_of_matches_needed_in_this_round,
                   single_round_measurement, sum_cnt, qubit_i, dice,
                   cost_of_outcomes, trial_needed, needed_at_qubit, compared>>

\* Lines 180-192: the round is emitted, the observables it matched are
\* counted, and the loop ends when every observable is satisfied.
RoundEnd ==
    /\ pc = "round_end"
    /\ measurement_procedure' =
          Append(measurement_procedure, single_round_measurement)
    /\ num_of_measurements_so_far' =
          CountMatches(num_of_measurements_so_far,
                       num_of_matches_needed_in_this_round)
    /\ IF Success(num_of_measurements_so_far')
       THEN /\ pc' = "done"
            /\ outcome' = "success"
            /\ repetition' = repetition
       ELSE /\ pc' = "loop"
            /\ outcome' = outcome
            /\ repetition' = repetition + 1
    /\ UNCHANGED <<inputs, weight, num_of_matches_needed_in_this_round,
                   single_round_measurement, sum_cnt, qubit_i, dice,
                   cost_of_outcomes, trial_needed, needed_at_qubit, compared>>

Next ==
    \/ ConfigCheck
    \/ RoundStart
    \/ Exhausted
    \/ Trial
    \/ Commit
    \/ RoundEnd

Spec == Init /\ [][Next]_vars

\* The function runs to its end: nothing suspends it.
FairSpec == Spec /\ WF_vars(Next)


\* ------------------------------------------- the commit loop on any costs
\* Lines 167-178 read nothing of the three costs but how they compare.  Here
\* they compare in any way at all (every weak order of three floats), the
\* computed intervals set aside; one observable, default weight.
AnyComparisons ==
    {v \in [Paulis -> 0..2] :
        \A p \in Paulis : v[p] = 0 \/ \E r \in Paulis : v[r] = v[p] - 1}

InitAnyCost ==
    /\ Init
    /\ Len(all_observables) = 1
    /\ weight_arg = NoWeight

CommitAnyCost ==
    /\ pc = "commit"
    /\ \E v \in AnyComparisons : CommitAs(v)

NextAnyCost ==
    \/ ConfigCheck
    \/ RoundStart
    \/ Exhausted
    \/ Trial
    \/ CommitAnyCost
    \/ RoundEnd

SpecAnyCost == InitAnyCost /\ [][NextAnyCost]_vars


\* ------------------------------------------------------------ the claims
\* The round matches the observable at every qubit it constrains.
FullMatch(round, ob) ==
    \A t \in 1..Len(ob) : round[ob[t][2] + 1] = ob[t][1]

\* The number of emitted rounds that fully match observable i.
MatchingRounds(i) ==
    Cardinality({r \in 1..Len(measurement_procedure) :
                    FullMatch(measurement_procedure[r], all_observables[i])})

\* floor(weight[i] * num_of_measurements_per_observable)
Required(i) ==
    (weight[i][1] * num_of_measurements_per_observable) \div weight[i][2]

ObservableIds == 1..NumObservables

\* C1: when the loop ends by the success break, every observable is fully
\* matched by at least floor(weight[i] * num_of_measurements_per_observable)
\* of the returned rounds.
C1_SuccessMeansEnoughMatches ==
    outcome = "success" =>
        \A i \in ObservableIds : MatchingRounds(i) >= Required(i)

C1_Witness ==
    /\ outcome = "success"
    /\ Len(measurement_procedure) >= 2
    /\ \E i \in ObservableIds : Required(i) = 2 /\ MatchingRounds(i) = 2
    /\ \E i \in ObservableIds : MatchingRounds(i) < Len(measurement_procedure)

\* C2: with weight = None the call terminates, and the list of emitted rounds
\* never holds more than num_of_measurements_per_observable *
\* len(all_observables) rounds.
C2_DefaultWeightRoundsBounded ==
    /\ [](weight_arg.is_none =>
            Len(measurement_procedure)
                <= num_of_measurements_per_observable * NumObservables)
    /\ (weight_arg.is_none ~> pc = "done")

C2_Witness ==
    /\ weight_arg.is_none
    /\ pc = "done"
    /\ NumObservables = 2
    /\ Len(measurement_procedure)
          = num_of_measurements_per_observable * NumObservables

\* C3, as claimed: a round that ends with no observable fully matched aborts
\* the run with an error; the call neither goes on nor returns its rounds.
C3_NoMatchRoundAborts ==
    [][(pc = "round_end"
          /\ \A i \in ObservableIds : num_of_matches_needed_in_this_round[i] # 0)
        => pc' = "raised"]_vars

\* The input of C4: one observable, weight = [2.0], one measurement.
C4_Input ==
    /\ NumObservables = 1
    /\ weight_arg = WeightList(<<(<<2, 1>>)>>)
    /\ num_of_measurements_per_observable = 1

C5_WeightLengthChecked ==
    /\ (~weight_arg.is_none /\ Len(weight_arg.list) # NumObservables) =>
          /\ pc \in {"start", "raised"}
          /\ pc = "raised" => outcome = "ValueError"
          /\ num_of_measurements_so_far = <<>>
          /\ measurement_procedure = <<>>
          /\ num_of_matches_needed_in_this_round = <<>>
          /\ single_round_measurement = <<>>
          /\ cost_of_outcomes = ZeroCosts
    /\ (weight_arg.is_none \/ Len(weight_arg.list) = NumObservables) =>
          /\ outcome # "ValueError"
          /\ pc # "raised"
    /\ (weight_arg.is_none /\ pc # "start") =>
          /\ Len(weight) = NumObservables
          /\ \A i \in ObservableIds : weight[i] = <<1, 1>>

C5_Witness ==
    /\ pc = "raised"
    /\ Len(weight_arg.list) = NumObservables + 1

\* C6: whatever the three costs, every qubit step appends exactly one basis,
\* so every emitted round has system_size entries, one per qubit, each X, Y
\* or Z.
C6_OneBasisPerQubit ==
    /\ \A r \in 1..Len(measurement_procedure) :
          /\ Len(measurement_procedure[r]) = system_size
          /\ \A q \in 1..system_size : measurement_procedure[r][q] \in Paulis
    /\ pc \in {"trial", "commit", "round_end"} =>
          /\ Len(single_round_measurement) = qubit_i
          /\ \A q \in 1..qubit_i : single_round_measurement[q] \in Paulis
    /\ pc = "round_end" => qubit_i = system_size

C6_Witness ==
    /\ pc = "done"
    /\ system_size = 2
    /\ Len(measurement_procedure) = 2
    /\ compared["X"] = compared["Y"]
    /\ compared["Y"] = compared["Z"]

\* The input of C7: [{0: X}, {0: Y}] on one qubit, one measurement, default
\* weight.
C7_Input ==
    /\ system_size = 1
    /\ all_observables = << <<(<<"X", 0>>)>>, <<(<<"Y", 0>>)>> >>
    /\ num_of_measurements_per_observable = 1
    /\ weight_arg.is_none

\* C7: on the two conflicting observables the call terminates by the success
\* break with 2 rounds, one X and one Y, each a full match of exactly one of
\* the two observables, and both observables satisfied.
C7_ConflictingObservables ==
    /\ [](C7_Input =>
            /\ Len(measurement_procedure) <= 2
            /\ pc = "done" =>
                  /\ outcome = "success"
                  /\ Len(measurement_procedure) = 2
                  /\ {measurement_procedure[r][1] : r \in 1..2} = {"X", "Y"}
                  /\ \A r \in 1..2 :
                        Cardinality({i \in 1..2 :
                            FullMatch(measurement_procedure[r],
                                      all_observables[i])}) = 1
                  /\ \A i \in 1..2 :
                        num_of_measurements_so_far[i] >= Required(i))
    /\ (C7_Input ~> pc = "done")

C7_Witness ==
    /\ C7_Input
    /\ pc = "done"
    /\ measurement_procedure = << <<"X">>, <<"Y">> >>

\* A qubit step has just committed its basis.
JustCommitted ==
    /\ qubit_i > 0
    /\ \/ pc = "trial" /\ dice = 1
       \/ pc = "round_end"

\* What committing basis p at qubit q does to the counter of observable ob.
CommittedChange(ob, q, p) ==
    IF \E t \in 1..Len(ob) : ob[t] = <<p, q>> THEN 0 - 1
    ELSE IF \E t \in 1..Len(ob) : ob[t][2] = q THEN 100 * (system_size + 10)
    ELSE 0

\* C8: the committed basis is the first of X, Y, Z whose cost is the minimum
\* of the three (no cost is smaller), and the counters after the commit are
\* those its trial evaluated: the counters at the start of the qubit step
\* changed by that basis alone, with no trace of the other two trials.
C8_FirstMinimumCommitted ==
    JustCommitted =>
        LET q == qubit_i - 1
            p == single_round_measurement[qubit_i]
            j == CHOOSE k \in 1..3 : PAULI_OPS[k] = p
        IN  /\ Len(single_round_measurement) = qubit_i
            /\ \A r \in Paulis :
                  /\ compared[p] <= compared[r]
                  /\ ~SurelyLess(cost_of_outcomes[r], cost_of_outcomes[p])
            /\ \A k \in 1..(j - 1) :
                  /\ compared[PAULI_OPS[k]] > compared[p]
                  /\ cost_of_outcomes[PAULI_OPS[k]].hi > cost_of_outcomes[p].lo
            /\ \A a, b \in Paulis :
                  SurelyLess(cost_of_outcomes[a], cost_of_outcomes[b])
                      => compared[a] < compared[b]
            /\ num_of_matches_needed_in_this_round = trial_needed[p]
            /\ \A i \in ObservableIds :
                  num_of_matches_needed_in_this_round[i]
                      = needed_at_qubit[i]
                          + CommittedChange(all_observables[i], q, p)

C8_Witness ==
    /\ JustCommitted
    /\ qubit_i = 2
    /\ single_round_measurement = <<"Y", "Z">>
    /\ compared["X"] > 0
    /\ compared["Y"] > 0
    /\ \E i \in ObservableIds :
          num_of_matches_needed_in_this_round[i] > system_size

\* The observable is unsatisfied and basis p, tried at this qubit after the
\* bases committed before it, conflicts with it: either the trial itself
\* or an earlier commit of the round did.
ConflictedInTrial(p, i) ==
    /\ num_of_measurements_so_far[i] < Required(i)
    /\ trial_needed[p][i] > system_size

\* C9, as claimed: once a basis conflicts with an unsatisfied observable, its
\* term in every later cost of the round is zero.
C9_ConflictExcluded ==
    pc = "commit" =>
        \A p \in Paulis : \A i \in ObservableIds :
            ConflictedInTrial(p, i)
                => cost_of_outcomes[p].terms[i] = <<0, 0>>

\* C9, amended: once a basis conflicts with an unsatisfied observable, the
\* observable stays in every later cost of the round with the logarithm left
\* out of V: its term is exp(-(eta / 2 * measurements_so_far) / weight -
\* shift), which is positive and the same whatever is tried later; only
\* satisfied observables contribute nothing, and the cost is the sum over all
\* unsatisfied ones.
C9_ConflictPenalised ==
    pc = "commit" =>
        \A p \in Paulis :
            /\ \A i \in ObservableIds :
                  /\ ConflictedInTrial(p, i) =>
                        /\ cost_of_outcomes[p].terms[i][1] > 0
                        /\ cost_of_outcomes[p].terms[i]
                              = RootByWeight(
                                    ExpDecay(num_of_measurements_so_far[i]),
                                    weight[i])
                  /\ (needed_at_qubit[i] > system_size) =>
                        \A r \in Paulis :
                            cost_of_outcomes[r].terms[i]
                                = cost_of_outcomes[p].terms[i]
                  /\ (num_of_measurements_so_far[i] >= Required(i)) =>
                        cost_of_outcomes[p].terms[i] = <<0, 0>>
            /\ cost_of_outcomes[p].lo
                  = SumLo(cost_of_outcomes[p].terms, NumObservables)
            /\ cost_of_outcomes[p].hi
                  = SumHi(cost_of_outcomes[p].terms, NumObservables)

C9_Witness ==
    /\ pc = "commit"
    /\ qubit_i = 1
    /\ \E i \in ObservableIds :
          /\ num_of_measurements_so_far[i] < Required(i)
          /\ needed_at_qubit[i] > system_size
          /\ Len(all_observables[i]) = 2
    /\ \E i \in ObservableIds :
          /\ num_of_measurements_so_far[i] < Required(i)
          /\ needed_at_qubit[i] <= system_size

UnsatisfiedIds(so_far) ==
    {i \in 1..Len(so_far) : so_far[i] < Required(i)}

\* C10: a round that begins with an unsatisfied observable ends with one of
\* the unsatisfied observables fully matched and counted once more; the set
\* of unsatisfied observables never grows; and with default weight the call
\* ends with every observable satisfied.
C10_EveryRoundProgresses ==
    [][/\ (pc = "round_end"
             /\ UnsatisfiedIds(num_of_measurements_so_far) # {}) =>
              \E i \in UnsatisfiedIds(num_of_measurements_so_far) :
                  /\ num_of_matches_needed_in_this_round[i] = 0
                  /\ FullMatch(single_round_measurement, all_observables[i])
                  /\ num_of_measurements_so_far'[i]
                        = num_of_measurements_so_far[i] + 1
       /\ (pc # "start") =>
              UnsatisfiedIds(num_of_measurements_so_far')
                  \subseteq UnsatisfiedIds(num_of_measurements_so_far)
       /\ (weight_arg.is_none /\ pc' = "done") =>
              /\ outcome' = "success"
              /\ UnsatisfiedIds(num_of_measurements_so_far') = {}
      ]_vars

C10_Witness ==
    /\ pc = "loop"
    /\ repetition = 2
    /\ Len(measurement_procedure) = 2
    /\ Cardinality(UnsatisfiedIds(num_of_measurements_so_far)) = 1
    /\ \E i \in ObservableIds : weight[i] = <<2, 1>>

====
